---- MODULE Spec2Model ----
(* The solar-system pipeline: fetch_data.py (fetch the two catalogs, write    *)
(* raw_planets.json and raw_moons.json) and load_data.py (read the two files, *)
(* load them into the two BigQuery staging tables).  One script runs at a     *)
(* time; the operator may invoke either script again when a run has ended.    *)
EXTENDS Integers, Sequences, FiniteSets, TLC

VARIABLES
    script,        \* "none" | "fetch" | "load": the script of the current/last run
    phase,         \* "idle" | "running" | "done" | "failed"
    runs,          \* number of invocations so far
    pc,            \* index of the next statement of the script
    exc,           \* the exception that ended the run ("none" if none)
    planets_df,    \* fetch_data.main local: <<>> is None, <<df>> a DataFrame
    moons_df,      \* fetch_data.main local
    files,         \* the two intermediate files on disk
    stdout,        \* what the current run has printed
    planets_data,  \* load_data local: <<>> unset, <<list>> the parsed list
    moons_data,    \* load_data local
    planets_job,   \* "none" | "pending" | "ok" | "failed"
    moons_job,     \* "none" | "pending" | "ok" | "failed"
    tables,        \* rows of the two warehouse tables
    log,           \* history: the I/O steps of the current run, in order
    files0,        \* history: files when the current run started
    tables0        \* history: tables when the current run started

vars == <<script, phase, runs, pc, exc, planets_df, moons_df, files, stdout,
          planets_data, moons_data, planets_job, moons_job, tables, log,
          files0, tables0>>

fetchLocals == <<planets_df, moons_df>>
loadLocals == <<planets_data, moons_data, planets_job, moons_job>>

\* ---------------------------------------------------------------- bounds
MaxRuns == 2

\* ------------------------------------------------------- program constants
StatusOK == 200
JsonIndent == 2

\* ------------------------------------------------------------- JSON values
Str(s) == [t |-> "str", v |-> s]
Num(s) == [t |-> "num", v |-> s]
JTrue == [t |-> "bool", v |-> "true"]
JFalse == [t |-> "bool", v |-> "false"]
Null == [t |-> "null", v |-> "null"]

NumTokens == {"8", "12"}

None == <<>>
Some(x) == <<x>>

\* ------------------------------------------- what the upstream API may answer
FlagFields == <<"name", "isPlanet", "aroundPlanet">>
Earth == <<Str("Earth"), JTrue, Null>>
Moon == <<Str("Moon"), JFalse, Str("Earth")>>
Ceres == <<Str("Ceres"), JFalse, Null>>
Io == <<Str("Io"), Num("8")>>

Body(valid, keys, fields, data) ==
    [valid_json |-> valid, keys |-> keys, fields |-> fields, data |-> data]

GoodBodies ==
    { Body(TRUE, {"data", "fields"}, FlagFields, <<>>),
      Body(TRUE, {"data", "fields"}, FlagFields, <<Earth>>),
      Body(TRUE, {"data", "fields"}, FlagFields, <<Moon, Ceres>>),
      Body(TRUE, {"data", "fields"}, <<"name", "mass">>, <<Io>>) }

BadBodies ==
    { Body(FALSE, {}, <<>>, <<>>),
      Body(TRUE, {"fields"}, FlagFields, <<>>),
      Body(TRUE, {"data"}, <<>>, <<Earth>>),
      Body(TRUE, {"data", "fields"}, <<"name">>, <<Earth>>) }

NoBody == Body(FALSE, {}, <<>>, <<>>)

Responses ==
    { [raised |-> TRUE, status |-> 0, body |-> NoBody] }
    \cup { [raised |-> FALSE, status |-> s, body |-> NoBody] : s \in {404, 503} }
    \cup { [raised |-> FALSE, status |-> StatusOK, body |-> b] :
             b \in GoodBodies \cup BadBodies }

\* ----------------------------------------------------------- pandas.DataFrame
Max(S) == CHOOSE x \in S : \A y \in S : y <= x

Pad(row, n) == [j \in 1..n |-> IF j <= Len(row) THEN row[j] ELSE Null]

\* pd.DataFrame(data, columns=fields): rows are padded to the longest row; the
\* number of column labels must equal that width (ValueError otherwise).
DataFrameOk(data, fields) ==
    \/ data = <<>>
    \/ Max({Len(data[i]) : i \in 1..Len(data)}) = Len(fields)

DataFrame(data, fields) ==
    [columns |-> fields,
     rows |-> [i \in 1..Len(data) |-> Pad(data[i], Len(fields))]]

\* dict[k] = v on an insertion-ordered dict held as a sequence of <<k, v>>
DictSet(d, k, v) ==
    IF \E i \in 1..Len(d) : d[i][1] = k
    THEN [i \in 1..Len(d) |-> IF d[i][1] = k THEN <<k, v>> ELSE d[i]]
    ELSE Append(d, <<k, v>>)

RECURSIVE DictZip(_, _, _, _)
DictZip(cols, row, j, acc) ==
    IF j > Len(cols) \/ j > Len(row) THEN acc
    ELSE DictZip(cols, row, j + 1, DictSet(acc, cols[j], row[j]))

\* DataFrame.to_dict(orient='records'): one dict(zip(columns, row)) per row
ToDictRecords(df) ==
    [i \in 1..Len(df.rows) |-> DictZip(df.columns, df.rows[i], 1, <<>>)]

\* ------------------------------------------------------------------ json.dump
WS == "\n"
Quote == "\""

DumpScalar(x) == IF x.t = "str" THEN <<Quote, x.v, Quote>> ELSE <<x.v>>

DumpMember(kv) == <<Quote, kv[1], Quote, ":">> \o DumpScalar(kv[2])

Newline == IF JsonIndent > 0 THEN <<WS>> ELSE <<>>

RECURSIVE DumpMembers(_, _)
DumpMembers(d, j) ==
    IF j > Len(d) THEN <<>>
    ELSE DumpMember(d[j])
         \o (IF j < Len(d) THEN <<",">> ELSE <<>>)
         \o Newline \o DumpMembers(d, j + 1)

DumpObject(d) ==
    IF d = <<>> THEN <<"{", "}">>
    ELSE <<"{">> \o Newline \o DumpMembers(d, 1) \o <<"}">>

RECURSIVE DumpElems(_, _)
DumpElems(l, i) ==
    IF i > Len(l) THEN <<>>
    ELSE DumpObject(l[i])
         \o (IF i < Len(l) THEN <<",">> ELSE <<>>)
         \o Newline \o DumpElems(l, i + 1)

\* json.dump(list_of_dicts, f, indent=2), as the tokens written to f
JsonDump(l) ==
    IF l = <<>> THEN <<"[", "]">>
    ELSE <<"[">> \o Newline \o DumpElems(l, 1) \o <<"]">>

\* ------------------------------------------------------------------ json.load
EOF == "<eof>"
Tok(toks, i) == IF i >= 1 /\ i <= Len(toks) THEN toks[i] ELSE EOF

RECURSIVE SkipWs(_, _)
SkipWs(toks, i) == IF Tok(toks, i) = WS THEN SkipWs(toks, i + 1) ELSE i

ParseFail == [ok |-> FALSE, val |-> <<>>, next |-> 0]
ParseOk(v, n) == [ok |-> TRUE, val |-> v, next |-> n]

ParseScalar(toks, i) ==
    LET t == Tok(toks, i) IN
    IF t = Quote
    THEN IF i + 2 <= Len(toks) /\ Tok(toks, i + 2) = Quote
         THEN [ok |-> TRUE, val |-> Str(toks[i + 1]), next |-> i + 3]
         ELSE [ok |-> FALSE, val |-> Null, next |-> 0]
    ELSE IF t = "true" THEN [ok |-> TRUE, val |-> JTrue, next |-> i + 1]
    ELSE IF t = "false" THEN [ok |-> TRUE, val |-> JFalse, next |-> i + 1]
    ELSE IF t = "null" THEN [ok |-> TRUE, val |-> Null, next |-> i + 1]
    ELSE IF t \in NumTokens THEN [ok |-> TRUE, val |-> Num(t), next |-> i + 1]
    ELSE [ok |-> FALSE, val |-> Null, next |-> 0]

RECURSIVE ParseMembers(_, _, _)
ParseMembers(toks, i, acc) ==
    IF ~(Tok(toks, i) = Quote /\ i + 2 <= Len(toks) /\ Tok(toks, i + 2) = Quote)
    THEN ParseFail
    ELSE LET key == toks[i + 1]
             c == SkipWs(toks, i + 3)
         IN IF Tok(toks, c) # ":" THEN ParseFail
            ELSE LET r == ParseScalar(toks, SkipWs(toks, c + 1)) IN
                 IF ~r.ok THEN ParseFail
                 ELSE LET j == SkipWs(toks, r.next)
                          d == DictSet(acc, key, r.val)
                      IN IF Tok(toks, j) = ","
                         THEN ParseMembers(toks, SkipWs(toks, j + 1), d)
                         ELSE IF Tok(toks, j) = "}" THEN ParseOk(d, j + 1)
                         ELSE ParseFail

ParseObject(toks, i) ==
    IF Tok(toks, i) # "{" THEN ParseFail
    ELSE LET j == SkipWs(toks, i + 1) IN
         IF Tok(toks, j) = "}" THEN ParseOk(<<>>, j + 1)
         ELSE ParseMembers(toks, j, <<>>)

RECURSIVE ParseElems(_, _, _)
ParseElems(toks, i, acc) ==
    LET r == ParseObject(toks, i) IN
    IF ~r.ok THEN ParseFail
    ELSE LET j == SkipWs(toks, r.next)
             l == Append(acc, r.val)
         IN IF Tok(toks, j) = ","
            THEN ParseElems(toks, SkipWs(toks, j + 1), l)
            ELSE IF Tok(toks, j) = "]" THEN ParseOk(l, j + 1)
            ELSE ParseFail

ParseArray(toks, i) ==
    IF Tok(toks, i) # "[" THEN ParseFail
    ELSE LET j == SkipWs(toks, i + 1) IN
         IF Tok(toks, j) = "]" THEN ParseOk(<<>>, j + 1)
         ELSE ParseElems(toks, j, <<>>)

\* json.load(file): the document, then nothing but whitespace
JsonLoad(toks) ==
    LET r == ParseArray(toks, SkipWs(toks, 1)) IN
    IF r.ok /\ SkipWs(toks, r.next) = Len(toks) + 1 THEN r ELSE ParseFail

\* ------------------------------------------------------------ the two scripts
Cats == {"planets", "moons"}
FileName(cat) == IF cat = "planets" THEN "raw_planets.json" ELSE "raw_moons.json"
TableId(cat) == IF cat = "planets" THEN "RawPlanet" ELSE "RawMoon"

\* the statements of fetch_data.main, in program order
FetchMain_moonsFirst ==
    <<"fetch_moons", "fetch_planets", "save_moons", "save_planets">>
FetchMain_refetch ==
    <<"fetch_planets", "fetch_moons", "fetch_planets", "save_planets", "save_moons">>
FetchMain == <<"fetch_planets", "fetch_moons", "save_planets", "save_moons">>

\* the statements of load_data.py, in program order
LoadScript_lazyRead ==
    <<"client", "read_planets", "submit_planets", "wait_planets", "read_moons",
      "submit_moons", "wait_moons", "print">>
LoadScript ==
    <<"client", "read_planets", "read_moons", "submit_planets", "wait_planets",
      "submit_moons", "wait_moons", "print">>

Program ==
    IF script = "fetch" THEN FetchMain
    ELSE IF script = "load" THEN LoadScript ELSE <<>>

Stmt == IF phase = "running" /\ pc <= Len(Program) THEN Program[pc] ELSE "end"

\* the statement returned normally: go on with the next one, or exit
Advance ==
    /\ pc' = pc + 1
    /\ phase' = IF pc + 1 > Len(Program) THEN "done" ELSE "running"
    /\ exc' = exc

\* an uncaught exception ends the process
Raise(e) ==
    /\ pc' = pc
    /\ phase' = "failed"
    /\ exc' = e

Ev(op, cat, ok, status) == [op |-> op, cat |-> cat, ok |-> ok, status |-> status]

Missing == [exists |-> FALSE, text |-> <<>>]

\* ------------------------------------------------------------------ operator
InvokeScript(s) ==
    /\ phase # "running"
    /\ runs < MaxRuns
    /\ runs' = runs + 1
    /\ script' = s
    /\ phase' = "running"
    /\ pc' = 1
    /\ exc' = "none"
    /\ planets_df' = None /\ moons_df' = None
    /\ planets_data' = None /\ moons_data' = None
    /\ planets_job' = "none" /\ moons_job' = "none"
    /\ stdout' = <<>>
    /\ log' = <<>>
    /\ files0' = files
    /\ tables0' = tables
    /\ UNCHANGED <<files, tables>>

InvokeFetch == InvokeScript("fetch")
InvokeLoad == InvokeScript("load")

\* --------------------------------------------------------------- fetch_data.py
\* What fetch_planets / fetch_moons does with the answer to its GET.
FetchOutcome(resp, what) ==
    IF resp.raised
    THEN [exc |-> "ConnectionError", df |-> None, out |-> <<>>]
    ELSE IF resp.status = StatusOK
    THEN IF ~resp.body.valid_json
         THEN [exc |-> "JSONDecodeError", df |-> None, out |-> <<>>]
         ELSE IF ~({"data", "fields"} \subseteq resp.body.keys)
         THEN [exc |-> "KeyError", df |-> None, out |-> <<>>]
         ELSE IF ~DataFrameOk(resp.body.data, resp.body.fields)
         THEN [exc |-> "ValueError", df |-> None, out |-> <<>>]
         ELSE [exc |-> "none",
               df |-> Some(DataFrame(resp.body.data, resp.body.fields)),
               out |-> <<>>]
    ELSE [exc |-> "none", df |-> None, out |-> <<"Failed to fetch " \o what>>]

FetchPlanets ==
    /\ Stmt = "fetch_planets"
    /\ \E resp \in Responses :
         LET o == FetchOutcome(resp, "planets") IN
         /\ log' = Append(log, Ev("GET", "planets", o.df # None, resp.status))
         /\ stdout' = stdout \o o.out
         /\ IF o.exc # "none"
            THEN Raise(o.exc) /\ UNCHANGED planets_df
            ELSE planets_df' = o.df /\ Advance
    /\ UNCHANGED <<script, runs, moons_df, files, tables, files0, tables0>>
    /\ UNCHANGED loadLocals

FetchMoons ==
    /\ Stmt = "fetch_moons"
    /\ \E resp \in Responses :
         LET o == FetchOutcome(resp, "moons") IN
         /\ log' = Append(log, Ev("GET", "moons", o.df # None, resp.status))
         /\ stdout' = stdout \o o.out
         /\ IF o.exc # "none"
            THEN Raise(o.exc) /\ UNCHANGED moons_df
            ELSE moons_df' = o.df /\ Advance
    /\ UNCHANGED <<script, runs, planets_df, files, tables, files0, tables0>>
    /\ UNCHANGED loadLocals

\* open(filename, 'w'): the file exists and is empty
OpenAppend(f) == [exists |-> TRUE, text |-> f.text]
OpenWrite(f) == [exists |-> TRUE, text |-> <<>>]

WriteTo(f, toks) == [exists |-> TRUE, text |-> f.text \o toks]

\* save_to_json(data, filename) and the print that follows it in main
SaveToJson(df, cat) ==
    LET name == FileName(cat)
        text == JsonDump(ToDictRecords(df))
    IN
    \/ /\ files' = [files EXCEPT ![name] = WriteTo(OpenWrite(@), text)]
       /\ stdout' = Append(stdout, cat \o " data saved to " \o name)
       /\ log' = Append(log, Ev("write", cat, TRUE, 0))
       /\ Advance
    \/ \* open() raises: nothing on disk changes
       /\ files' = files
       /\ stdout' = stdout
       /\ log' = Append(log, Ev("write", cat, FALSE, 0))
       /\ Raise("OSError")
    \/ \* the write fails part way: the file was truncated and holds a prefix
       /\ \E k \in {0, Len(text) \div 2} :
            files' = [files EXCEPT
                        ![name] = WriteTo(OpenWrite(@), SubSeq(text, 1, k))]
       /\ stdout' = stdout
       /\ log' = Append(log, Ev("write", cat, FALSE, 0))
       /\ Raise("OSError")

PlanetsGuard_both == planets_df # None /\ moons_df # None
PlanetsGuard == planets_df # None
MoonsGuard == moons_df # None

SavePlanets ==
    /\ Stmt = "save_planets"
    /\ IF PlanetsGuard
       THEN SaveToJson(planets_df[1], "planets")
       ELSE Advance /\ UNCHANGED <<files, stdout, log>>
    /\ UNCHANGED <<script, runs, tables, files0, tables0>>
    /\ UNCHANGED fetchLocals
    /\ UNCHANGED loadLocals

SaveMoons ==
    /\ Stmt = "save_moons"
    /\ IF MoonsGuard
       THEN SaveToJson(moons_df[1], "moons")
       ELSE Advance /\ UNCHANGED <<files, stdout, log>>
    /\ UNCHANGED <<script, runs, tables, files0, tables0>>
    /\ UNCHANGED fetchLocals
    /\ UNCHANGED loadLocals

\* ---------------------------------------------------------------- load_data.py
CreateClient ==
    /\ Stmt = "client"
    /\ \/ Advance
       \/ Raise("DefaultCredentialsError")
    /\ UNCHANGED <<script, runs, files, tables, stdout, log, files0, tables0>>
    /\ UNCHANGED fetchLocals
    /\ UNCHANGED loadLocals

\* with open(name, 'r') as file: json.load(file)
ReadJson(cat) ==
    LET f == files[FileName(cat)]
        r == JsonLoad(f.text)
    IN IF ~f.exists THEN [exc |-> "FileNotFoundError", data |-> None]
       ELSE IF ~r.ok THEN [exc |-> "JSONDecodeError", data |-> None]
       ELSE [exc |-> "none", data |-> Some(r.val)]

ReadPlanets ==
    /\ Stmt = "read_planets"
    /\ LET o == ReadJson("planets") IN
       /\ log' = Append(log, Ev("read", "planets", o.exc = "none", 0))
       /\ IF o.exc # "none"
          THEN Raise(o.exc) /\ UNCHANGED planets_data
          ELSE planets_data' = o.data /\ Advance
    /\ UNCHANGED <<script, runs, files, tables, stdout, files0, tables0>>
    /\ UNCHANGED <<moons_data, planets_job, moons_job>>
    /\ UNCHANGED fetchLocals

ReadMoons ==
    /\ Stmt = "read_moons"
    /\ LET o == ReadJson("moons") IN
       /\ log' = Append(log, Ev("read", "moons", o.exc = "none", 0))
       /\ IF o.exc # "none"
          THEN Raise(o.exc) /\ UNCHANGED moons_data
          ELSE moons_data' = o.data /\ Advance
    /\ UNCHANGED <<script, runs, files, tables, stdout, files0, tables0>>
    /\ UNCHANGED <<planets_data, planets_job, moons_job>>
    /\ UNCHANGED fetchLocals

\* client.load_table_from_json(...): the job is created, or the call raises
SubmitPlanets ==
    /\ Stmt = "submit_planets"
    /\ \/ /\ planets_job' = "pending"
          /\ log' = Append(log, Ev("submit", "planets", TRUE, 0))
          /\ Advance
       \/ /\ planets_job' = planets_job
          /\ log' = Append(log, Ev("submit", "planets", FALSE, 0))
          /\ Raise("GoogleAPICallError")
    /\ UNCHANGED <<script, runs, files, tables, stdout, files0, tables0>>
    /\ UNCHANGED <<planets_data, moons_data, moons_job>>
    /\ UNCHANGED fetchLocals

SubmitMoons ==
    /\ Stmt = "submit_moons"
    /\ \/ /\ moons_job' = "pending"
          /\ log' = Append(log, Ev("submit", "moons", TRUE, 0))
          /\ Advance
       \/ /\ moons_job' = moons_job
          /\ log' = Append(log, Ev("submit", "moons", FALSE, 0))
          /\ Raise("GoogleAPICallError")
    /\ UNCHANGED <<script, runs, files, tables, stdout, files0, tables0>>
    /\ UNCHANGED <<planets_data, moons_data, planets_job>>
    /\ UNCHANGED fetchLocals

\* The warehouse runs a pending job to a terminal state: the rows are appended
\* to the destination table, or the job fails and the table is left alone.
WarehouseFinishes(cat) ==
    LET data == IF cat = "planets" THEN planets_data ELSE moons_data
        rows == IF data = None THEN <<>> ELSE data[1]
    IN
    /\ phase = "running"
    /\ (IF cat = "planets" THEN planets_job ELSE moons_job) = "pending"
    /\ \E ok \in BOOLEAN :
         /\ IF cat = "planets"
            THEN planets_job' = (IF ok THEN "ok" ELSE "failed")
                 /\ UNCHANGED moons_job
            ELSE moons_job' = (IF ok THEN "ok" ELSE "failed")
                 /\ UNCHANGED planets_job
         /\ tables' = IF ok
                      THEN [tables EXCEPT ![TableId(cat)] = @ \o rows]
                      ELSE tables
    /\ UNCHANGED <<script, phase, runs, pc, exc, files, stdout, log, files0,
                   tables0, planets_data, moons_data>>
    /\ UNCHANGED fetchLocals

WarehouseFinishesPlanets == WarehouseFinishes("planets")
WarehouseFinishesMoons == WarehouseFinishes("moons")

\* job.result(): returns once the job is in a terminal state
ResultReturns_noBlock(job) == job # "none"
ResultReturns(job) == job \in {"ok", "failed"}

\* job.result(): raises the job's error
ResultRaises(job) == job = "failed"

WaitPlanets ==
    /\ Stmt = "wait_planets"
    /\ ResultReturns(planets_job)
    /\ log' = Append(log, Ev("wait", "planets", ~ResultRaises(planets_job), 0))
    /\ IF ResultRaises(planets_job) THEN Raise("LoadError") ELSE Advance
    /\ UNCHANGED <<script, runs, files, tables, stdout, files0, tables0>>
    /\ UNCHANGED fetchLocals
    /\ UNCHANGED loadLocals

WaitMoons_rollback ==
    /\ Stmt = "wait_moons"
    /\ ResultReturns(moons_job)
    /\ log' = Append(log, Ev("wait", "moons", ~ResultRaises(moons_job), 0))
    /\ IF ResultRaises(moons_job)
       THEN Raise("LoadError") /\ tables' = tables0
       ELSE Advance /\ tables' = tables
    /\ UNCHANGED <<script, runs, files, stdout, files0, tables0>>
    /\ UNCHANGED fetchLocals
    /\ UNCHANGED loadLocals

WaitMoons ==
    /\ Stmt = "wait_moons"
    /\ ResultReturns(moons_job)
    /\ log' = Append(log, Ev("wait", "moons", ~ResultRaises(moons_job), 0))
    /\ IF ResultRaises(moons_job) THEN Raise("LoadError") ELSE Advance
    /\ UNCHANGED <<script, runs, files, tables, stdout, files0, tables0>>
    /\ UNCHANGED fetchLocals
    /\ UNCHANGED loadLocals

LoadedMessage == "Loaded data into RawPlanet and RawMoon."

PrintLoaded ==
    /\ Stmt = "print"
    /\ stdout' = Append(stdout, LoadedMessage)
    /\ Advance
    /\ UNCHANGED <<script, runs, files, tables, log, files0, tables0>>
    /\ UNCHANGED fetchLocals
    /\ UNCHANGED loadLocals

\* ------------------------------------------------------------- specification
PriorFiles ==
    { Missing,
      [exists |-> TRUE, text |-> <<"[", WS, "{">>],
      [exists |-> TRUE, text |-> JsonDump(ToDictRecords(DataFrame(<<Earth>>, FlagFields)))] }

Init ==
    /\ script = "none"
    /\ phase = "idle"
    /\ runs = 0
    /\ pc = 1
    /\ exc = "none"
    /\ planets_df = None /\ moons_df = None
    /\ planets_data = None /\ moons_data = None
    /\ planets_job = "none" /\ moons_job = "none"
    /\ stdout = <<>>
    /\ log = <<>>
    /\ files \in [{"raw_planets.json", "raw_moons.json"} -> PriorFiles]
    /\ files0 = files
    /\ tables = [t \in {"RawPlanet", "RawMoon"} |-> <<>>]
    /\ tables0 = tables

Next ==
    \/ InvokeFetch
    \/ InvokeLoad
    \/ FetchPlanets
    \/ FetchMoons
    \/ SavePlanets
    \/ SaveMoons
    \/ CreateClient
    \/ ReadPlanets
    \/ ReadMoons
    \/ SubmitPlanets
    \/ WarehouseFinishesPlanets
    \/ WaitPlanets
    \/ SubmitMoons
    \/ WarehouseFinishesMoons
    \/ WaitMoons
    \/ PrintLoaded

Spec == Init /\ [][Next]_vars

\* ------------------------------------------------------- vocabulary of claims
Idx(op, cat) == {i \in DOMAIN log : log[i].op = op /\ log[i].cat = cat}
Did(op, cat) == Idx(op, cat) # {}
DidOk(op, cat) == \E i \in Idx(op, cat) : log[i].ok
Printed(msg) == \E i \in DOMAIN stdout : stdout[i] = msg
Ended == phase \in {"done", "failed"}

DfOf(cat) == IF cat = "planets" THEN planets_df ELSE moons_df
FileOf(cat) == files[FileName(cat)]
RecordsIn(f) == JsonLoad(f.text).val
Defective(f) == ~f.exists \/ ~JsonLoad(f.text).ok

Field(rec, k) ==
    IF \E j \in DOMAIN rec : rec[j][1] = k
    THEN rec[CHOOSE j \in DOMAIN rec : rec[j][1] = k][2]
    ELSE Null
IsPlanet(rec) == Field(rec, "isPlanet") = JTrue
IsMoon(rec) == ~IsPlanet(rec) /\ Field(rec, "aroundPlanet") # Null
SeqRange(q) == {q[i] : i \in DOMAIN q}

\* C1 (as claimed): once a stage has failed (a GET that gave no DataFrame, a
\* failed write, read, submit or wait), the run executes no later stage: a
\* failed step is the last step of the run's log.
C1_FailFast ==
    \A i \in DOMAIN log : ~log[i].ok => i = Len(log)

\* C2 (as claimed): when a GET of the fetch run answered 503, the run does not
\* complete normally and both intermediate files hold what they held when the
\* run started.
C2_No503Write ==
    (script = "fetch" /\ \E i \in DOMAIN log : log[i].op = "GET" /\ log[i].status = 503)
        => (files = files0 /\ phase # "done")

\* C3 (as claimed): what the run wrote is partitioned by the flags: every
\* record written to raw_planets.json has isPlanet true, every record written
\* to raw_moons.json has isPlanet falsy and a non-null aroundPlanet, and no
\* record is in both files.
C3_Classification ==
    script = "fetch" =>
        /\ DidOk("write", "planets") =>
             \A r \in SeqRange(RecordsIn(FileOf("planets"))) : IsPlanet(r)
        /\ DidOk("write", "moons") =>
             \A r \in SeqRange(RecordsIn(FileOf("moons"))) : IsMoon(r)
        /\ (DidOk("write", "planets") /\ DidOk("write", "moons")) =>
             SeqRange(RecordsIn(FileOf("planets")))
                \cap SeqRange(RecordsIn(FileOf("moons"))) = {}

\* C4: within one run every Planets step precedes the Moons step of the same
\* kind: no Planets step follows a Moons step of its kind, the moons GET, read
\* and submit each come after the planets one, and the moons job is submitted
\* only after the planets job was awaited.
C4_PlanetsBeforeMoons ==
    /\ \A i, j \in DOMAIN log :
         (log[i].op = log[j].op /\ log[i].cat = "moons" /\ log[j].cat = "planets")
            => j < i
    /\ \A i \in DOMAIN log :
         (log[i].cat = "moons" /\ log[i].op \in {"GET", "read", "submit", "wait"})
            => \E j \in 1..(i - 1) : log[j].op = log[i].op /\ log[j].cat = "planets"
    /\ \A i \in Idx("submit", "moons") :
         \E j \in 1..(i - 1) : log[j] = Ev("wait", "planets", TRUE, 0)
    /\ \A i \in Idx("write", "moons") :
         planets_df # None => \E j \in 1..(i - 1) : log[j] = Ev("write", "planets", TRUE, 0)

C4_Witness ==
    /\ script = "load"
    /\ DidOk("read", "moons")
    /\ DidOk("submit", "moons")
    /\ DidOk("submit", "planets")

\* C5: a load is a synchronous wait: while a job is pending the loader stands
\* at that job's result() call, the Moons job does not exist before the Planets
\* job succeeded, the two jobs are never pending together, and the completion
\* message is printed only when both jobs have succeeded.
C5_SynchronousWait ==
    /\ planets_job = "pending" =>
         (Stmt = "wait_planets" /\ moons_job = "none" /\ ~Printed(LoadedMessage))
    /\ moons_job = "pending" =>
         (Stmt = "wait_moons" /\ planets_job = "ok" /\ ~Printed(LoadedMessage))
    /\ moons_job # "none" => planets_job = "ok"
    /\ ~(planets_job = "pending" /\ moons_job = "pending")
    /\ Printed(LoadedMessage) => (planets_job = "ok" /\ moons_job = "ok")

C5_Witness ==
    /\ Printed(LoadedMessage)
    /\ planets_job = "ok"
    /\ moons_job = "ok"
    /\ tables["RawMoon"] # <<>>

\* C6: when the Moons job fails after the Planets job succeeded, the Planets
\* table holds its rows of before the run followed by the loaded rows, the
\* Moons table is as before the run, the completion message is not printed,
\* and the run ends failed.
C6_NoRollback ==
    (script = "load" /\ planets_job = "ok" /\ moons_job = "failed") =>
        /\ tables["RawPlanet"] = tables0["RawPlanet"] \o planets_data[1]
        /\ tables["RawMoon"] = tables0["RawMoon"]
        /\ ~Printed(LoadedMessage)
        /\ phase # "done"
        /\ Ended => (phase = "failed" /\ exc = "LoadError")

C6_Witness ==
    /\ script = "load"
    /\ planets_job = "ok"
    /\ moons_job = "failed"
    /\ phase = "failed"
    /\ planets_data[1] # <<>>
    /\ tables0["RawPlanet"] # <<>>

\* json.load of the file gives one object per row of df, in row order, whose
\* members are df's columns in order with that row's values, and nothing else.
RoundTrips(df, f) ==
    LET r == JsonLoad(f.text) IN
    /\ f.exists
    /\ r.ok
    /\ Len(r.val) = Len(df.rows)
    /\ \A i \in 1..Len(df.rows) :
         /\ Len(r.val[i]) = Len(df.columns)
         /\ \A j \in 1..Len(df.columns) :
              r.val[i][j] = <<df.columns[j], df.rows[i][j]>>

\* C7: after save_to_json succeeded for a category, whatever the file held
\* before, parsing the file gives a sequence equal to the batch in length,
\* order and field content (the empty batch included); nothing of the previous
\* content remains.
C7_RoundTrip ==
    script = "fetch" =>
        \A cat \in Cats :
            DidOk("write", cat) => RoundTrips(DfOf(cat)[1], FileOf(cat))

C7_Witness ==
    /\ script = "fetch"
    /\ DidOk("write", "planets")
    /\ DidOk("write", "moons")
    /\ Len(planets_df[1].rows) = 2
    /\ moons_df[1].rows = <<>>
    /\ files0["raw_planets.json"].text # <<>>
    /\ JsonLoad(files0["raw_moons.json"].text).ok

\* C8: in one run each endpoint is asked at most once, each intermediate file
\* is written at most once and at most one load job is submitted per table.
C8_NoRetry ==
    \A cat \in Cats : \A op \in {"GET", "write", "submit"} :
        Cardinality(Idx(op, cat)) <= 1

C8_Witness ==
    /\ script = "fetch"
    /\ phase = "done"
    /\ Did("GET", "planets") /\ ~DidOk("GET", "planets")
    /\ Did("GET", "moons") /\ ~DidOk("GET", "moons")

FetchRaised == script = "fetch" /\ phase = "failed" /\ exc # "OSError"
BothFetched == script = "fetch" /\ Did("GET", "planets") /\ Did("GET", "moons")
              /\ ~FetchRaised

\* Parts of C9 that the claim and its amendment share: no file is written
\* before both fetches have returned, and a fetch that raises leaves both
\* files as they were.
C9_WritesAfterFetches ==
    /\ \A i \in DOMAIN log :
         log[i].op = "write" =>
            \A cat \in Cats : \E j \in 1..(i - 1) : log[j].op = "GET" /\ log[j].cat = cat
    /\ FetchRaised => files = files0

\* C9 (as claimed): once both fetches have returned and the run has ended, a
\* category's file has been written if and only if that category's own fetch
\* returned a DataFrame.
C9_WrittenIffFetched ==
    /\ C9_WritesAfterFetches
    /\ (BothFetched /\ Ended) =>
         \A cat \in Cats : DidOk("write", cat) <=> DfOf(cat) # None

\* C9 (amended): no file is written before both fetches have returned; a fetch
\* that raises leaves both files untouched; save_to_json is called for
\* raw_planets.json iff the planets fetch returned a DataFrame, and for
\* raw_moons.json iff the moons fetch returned a DataFrame and the planets
\* save did not raise; a run that ends without an exception has written
\* exactly the files of the categories whose own fetch returned a DataFrame.
C9_WrittenIffFetchedAndSaved ==
    /\ C9_WritesAfterFetches
    /\ (BothFetched /\ Ended) =>
         /\ Did("write", "planets") <=> planets_df # None
         /\ Did("write", "moons") <=>
              (moons_df # None /\ ~(Did("write", "planets") /\ ~DidOk("write", "planets")))
         /\ phase = "done" =>
              \A cat \in Cats :
                 /\ DidOk("write", cat) <=> DfOf(cat) # None
                 /\ DfOf(cat) # None => RoundTrips(DfOf(cat)[1], FileOf(cat))
                 /\ DfOf(cat) = None => FileOf(cat) = files0[FileName(cat)]

C9_Witness ==
    /\ script = "fetch"
    /\ phase = "done"
    /\ planets_df # None
    /\ moons_df = None
    /\ DidOk("write", "planets")
    /\ files["raw_planets.json"] # files0["raw_planets.json"]
    /\ files["raw_moons.json"] = files0["raw_moons.json"]

\* C10: the loader parses both files before it submits any job; when either
\* file is missing or is not valid JSON the run does not complete, submits no
\* job and leaves both tables as they were; the loader never changes either
\* intermediate file.
C10_ReadBeforeLoad ==
    script = "load" =>
        /\ files = files0
        /\ \A i \in DOMAIN log :
             log[i].op = "submit" =>
                \A cat \in Cats : \E j \in 1..(i - 1) : log[j] = Ev("read", cat, TRUE, 0)
        /\ (Defective(FileOf("planets")) \/ Defective(FileOf("moons"))) =>
             /\ \A cat \in Cats : ~Did("submit", cat)
             /\ planets_job = "none" /\ moons_job = "none"
             /\ tables = tables0
             /\ phase # "done"
             /\ ~Printed(LoadedMessage)

C10_Witness ==
    /\ script = "load"
    /\ phase = "failed"
    /\ ~Defective(FileOf("planets"))
    /\ RecordsIn(FileOf("planets")) # <<>>
    /\ Defective(FileOf("moons"))
    /\ DidOk("read", "planets")
    /\ Did("read", "moons")

====
